---- MODULE Spec2Model ----
(***************************************************************************)
(* A model of the Global Entry appointment alert: the slot normalizer      *)
(* (Appointment, _process_slots), the change detector (_slots_changed),    *)
(* the sweep over the configured locations (check_slots) and the poll loop *)
(* of main().                                                              *)
(***************************************************************************)
EXTENDS Integers, Sequences, FiniteSets, TLC

(***************************************************************************)
(* Bounds of the model.                                                    *)
(***************************************************************************)
\* number of configured locations (len(location_ids))
NumLocations == 2
\* largest number of raw records in one upstream payload
MaxSlots == 2

(***************************************************************************)
(* Values.  A timestamp 'YYYY-MM-DDTHH:MM' is the tuple <<Y, M, D, h, m>>; *)
(* a date string 'YYYY-MM-DD' is <<Y, M, D>>; a time string                *)
(* 'II:MM pp EST' is <<I, M, pp>>.  The zero-padded strings compare as     *)
(* these tuples compare lexicographically, with "AM" before "PM".          *)
(***************************************************************************)
\* ids a deployment may be given; "9999" has no entry in location_names
KnownLocationIds == <<"14321", "9999", "5140", "5182">>

\* the list GlobalEntrySlotChecker is constructed with (main() passes a list of
\* one id, load_config a list split at the commas)
location_ids == SubSeq(KnownLocationIds, 1, NumLocations)

LocationIdSet == {location_ids[i] : i \in 1..Len(location_ids)}

KnownLocationIdSet == {KnownLocationIds[i] : i \in 1..Len(KnownLocationIds)}

location_names(location_id) ==
    CASE location_id = "5140"  -> "JFK International Airport"
      [] location_id = "14321" -> "Charlotte-Douglas International Airport"
      [] location_id = "5182"  -> "Daniel K. Inouye International Airport"
      [] OTHER                 -> "Location " \o location_id

\* an optional value: <<>> is Python's None (or an empty list), <<v>> is v
None == <<>>

DaysInMonth(y, m) ==
    CASE m \in {4, 6, 9, 11} -> 30
      [] m = 2 -> IF (y % 4 = 0 /\ y % 100 # 0) \/ y % 400 = 0 THEN 29 ELSE 28
      [] OTHER -> 31

\* the calendar day before <<y, m, d>>
PrevDay(y, m, d) ==
    IF d > 1 THEN <<y, m, d - 1>>
    ELSE IF m > 1 THEN <<y, m - 1, DaysInMonth(y, m - 1)>>
    ELSE <<y - 1, 12, 31>>

\* lexicographic order of two tuples of integers of the same length
RECURSIVE TupleLess(_, _)
TupleLess(a, b) ==
    IF a = <<>> \/ b = <<>> THEN FALSE
    ELSE IF Head(a) # Head(b) THEN Head(a) < Head(b)
    ELSE TupleLess(Tail(a), Tail(b))

\* hours that America/New_York is behind UTC at the UTC instant ts: daylight
\* time from 2025-03-09T07:00 until 2025-11-02T06:00, for timestamps of 2025
EasternOffset(ts) ==
    IF ts[1] = 2025 /\ ~TupleLess(ts, <<2025, 3, 9, 7, 0>>)
                    /\ TupleLess(ts, <<2025, 11, 2, 6, 0>>)
    THEN 4 ELSE 5

\* a variant of ToEastern that turns the clock back and keeps the day
ToEasternSameDay(ts) ==
    LET off == EasternOffset(ts) IN
    <<ts[1], ts[2], ts[3], (ts[4] + 24 - off) % 24, ts[5]>>

\* pytz.UTC.localize(utc_time).astimezone(est_tz), as <<Y, M, D, h, m>>
ToEastern(ts) ==
    LET off == EasternOffset(ts) IN
    IF ts[4] >= off THEN <<ts[1], ts[2], ts[3], ts[4] - off, ts[5]>>
    ELSE LET p == PrevDay(ts[1], ts[2], ts[3])
         IN  <<p[1], p[2], p[3], ts[4] + 24 - off, ts[5]>>

\* a raw record of the upstream JSON array: has_start says whether the key
\* 'startTimestamp' is there, startTimestamp is its value, a tuple of five
\* numbers when it is in the format '%Y-%m-%dT%H:%M'
RawRecord(ts) == [has_start |-> TRUE, startTimestamp |-> ts]

StrptimeOk(s) ==
    /\ Len(s) = 5
    /\ s[2] \in 1..12
    /\ s[3] \in 1..DaysInMonth(s[1], s[2])
    /\ s[4] \in 0..23
    /\ s[5] \in 0..59

\* Appointment(...) is built and .date and .time are read without an exception
AppointmentOk(slot_data) ==
    slot_data.has_start /\ StrptimeOk(slot_data.startTimestamp)

\* Appointment.date: est_time.strftime('%Y-%m-%d')
AppointmentDate(start_timestamp) ==
    LET e == ToEastern(start_timestamp) IN <<e[1], e[2], e[3]>>

\* Appointment.time: est_time.strftime('%I:%M %p EST')
AppointmentTime(start_timestamp) ==
    LET e == ToEastern(start_timestamp)
        I == IF e[4] % 12 = 0 THEN 12 ELSE e[4] % 12
    IN  <<I, e[5], IF e[4] < 12 THEN "AM" ELSE "PM">>

\* str < str on two time strings 'II:MM pp EST'
TimeStrLess(a, b) ==
    IF a[1] # b[1] THEN a[1] < b[1]
    ELSE IF a[2] # b[2] THEN a[2] < b[2]
    ELSE a[3] = "AM" /\ b[3] = "PM"

\* sorted(list of time strings)
RECURSIVE Insert(_, _)
Insert(t, s) ==
    IF s = <<>> THEN <<t>>
    ELSE IF TimeStrLess(t, Head(s)) THEN <<t>> \o s
    ELSE <<Head(s)>> \o Insert(t, Tail(s))

RECURSIVE sorted(_)
sorted(s) == IF s = <<>> THEN <<>> ELSE Insert(Head(s), sorted(Tail(s)))

\* min(slots_by_date.keys()) of a non-empty set of date strings
MinDate(dates) ==
    CHOOSE d \in dates : \A e \in dates : e = d \/ TupleLess(d, e)

\* the times appended to slots_by_date[date], in the order of the records
RECURSIVE TimesOn(_, _)
TimesOn(slots, date) ==
    IF slots = <<>> THEN <<>>
    ELSE LET slot_data == Head(slots)
             rest == TimesOn(Tail(slots), date)
         IN  IF AppointmentOk(slot_data)
                /\ AppointmentDate(slot_data.startTimestamp) = date
             THEN <<AppointmentTime(slot_data.startTimestamp)>> \o rest
             ELSE rest

\* a variant of _process_slots without the try around each record: one
\* malformed record and the call gives no observation at all
_process_slots_unguarded(slots, location_id) ==
    LET slots_by_date ==
            {AppointmentDate(slots[i].startTimestamp) :
                 i \in {j \in 1..Len(slots) : AppointmentOk(slots[j])}}
    IN  IF slots_by_date # {} /\ \A i \in 1..Len(slots) : AppointmentOk(slots[i])
        THEN LET earliest_date == MinDate(slots_by_date)
             IN  << [location |-> location_id,
                     date |-> earliest_date,
                     times |-> sorted(TimesOn(slots, earliest_date)),
                     location_name |-> location_names(location_id)] >>
        ELSE <<>>

\* _process_slots: the list of at most one slot_info, that of the earliest date
_process_slots(slots, location_id) ==
    LET slots_by_date ==
            {AppointmentDate(slots[i].startTimestamp) :
                 i \in {j \in 1..Len(slots) : AppointmentOk(slots[j])}}
    IN  IF slots_by_date # {}
        THEN LET earliest_date == MinDate(slots_by_date)
             IN  << [location |-> location_id,
                     date |-> earliest_date,
                     times |-> sorted(TimesOn(slots, earliest_date)),
                     location_name |-> location_names(location_id)] >>
        ELSE <<>>

(***************************************************************************)
(* The change detector.  last_seen_slots is a dict: a function whose       *)
(* domain is the set of its keys.                                          *)
(***************************************************************************)
\* dict.get(key): <<value>> or None
Get(table, key) == IF key \in DOMAIN table THEN <<table[key]>> ELSE None

\* table[key] = value
Put(table, key, value) ==
    [k \in DOMAIN table \cup {key} |-> IF k = key THEN value ELSE table[k]]

\* a variant of _slots_changed that reports a first observation and forgets it
_slots_changed_first_not_stored(table, location_id, new_slots) ==
    IF new_slots = <<>>
    THEN [ret |-> Get(table, location_id) # None, table |-> table]
    ELSE LET new_slot == new_slots[1]
             last_slot == Get(table, location_id)
         IN  IF last_slot = None
             THEN [ret |-> TRUE, table |-> table]
             ELSE LET has_changed ==
                          \/ new_slot.date # last_slot[1].date
                          \/ new_slot.times # last_slot[1].times
                  IN  [ret |-> has_changed,
                       table |-> IF has_changed
                                 THEN Put(table, location_id, new_slot)
                                 ELSE table]

\* a variant of _slots_changed that reports every observation as changed
_slots_changed_never_equal(table, location_id, new_slots) ==
    IF new_slots = <<>>
    THEN [ret |-> Get(table, location_id) # None, table |-> table]
    ELSE [ret |-> TRUE, table |-> Put(table, location_id, new_slots[1])]

\* a variant of _slots_changed that compares the dates only
_slots_changed_date_only(table, location_id, new_slots) ==
    IF new_slots = <<>>
    THEN [ret |-> Get(table, location_id) # None, table |-> table]
    ELSE LET new_slot == new_slots[1]
             last_slot == Get(table, location_id)
         IN  IF last_slot = None
             THEN [ret |-> TRUE, table |-> Put(table, location_id, new_slot)]
             ELSE LET has_changed == new_slot.date # last_slot[1].date
                  IN  [ret |-> has_changed,
                       table |-> IF has_changed
                                 THEN Put(table, location_id, new_slot)
                                 ELSE table]

\* a variant of _slots_changed that drops the entry when there are no slots
_slots_changed_entry_cleared(table, location_id, new_slots) ==
    IF new_slots = <<>>
    THEN [ret |-> Get(table, location_id) # None,
          table |-> [k \in DOMAIN table \ {location_id} |-> table[k]]]
    ELSE LET new_slot == new_slots[1]
             last_slot == Get(table, location_id)
         IN  IF last_slot = None
             THEN [ret |-> TRUE, table |-> Put(table, location_id, new_slot)]
             ELSE LET has_changed ==
                          \/ new_slot.date # last_slot[1].date
                          \/ new_slot.times # last_slot[1].times
                  IN  [ret |-> has_changed,
                       table |-> IF has_changed
                                 THEN Put(table, location_id, new_slot)
                                 ELSE table]

\* _slots_changed: the value returned and the table it leaves
_slots_changed(table, location_id, new_slots) ==
    IF new_slots = <<>>
    THEN [ret |-> Get(table, location_id) # None, table |-> table]
    ELSE LET new_slot == new_slots[1]
             last_slot == Get(table, location_id)
         IN  IF last_slot = None
             THEN [ret |-> TRUE, table |-> Put(table, location_id, new_slot)]
             ELSE LET has_changed ==
                          \/ new_slot.date # last_slot[1].date
                          \/ new_slot.times # last_slot[1].times
                  IN  [ret |-> has_changed,
                       table |-> IF has_changed
                                 THEN Put(table, location_id, new_slot)
                                 ELSE table]

(***************************************************************************)
(* What the upstream service, the notification sink and the command line   *)
(* can present.                                                            *)
(***************************************************************************)
\* the default of --interval
DefaultInterval == 300
\* the cooldown after an exception in the poll loop
CooldownSeconds == 60

\* --interval is any int: time.sleep raises ValueError on a negative one
Intervals == {DefaultInterval, -1}

\* the class of the objects session.get returns: a requests.Response is falsy
\* when its status is 400 or more (Response.__bool__ is Response.ok); the
\* MockResponse of the tests defines no __bool__ and is always truthy
ResponseClasses == {"requests.Response", "MockResponse"}

UpstreamRecords ==
    { RawRecord(<<2025, 2, 14, 10, 0>>),
      RawRecord(<<2025, 2, 14, 11, 0>>),
      RawRecord(<<2025, 2, 15, 10, 0>>) }

SeqsUpTo(S, n) == UNION {[1..k -> S] : k \in 0..n}

\* the JSON arrays a slot request can be answered with: up to MaxSlots
\* different slots, in any order
Payloads ==
    {p \in SeqsUpTo(UpstreamRecords, MaxSlots) :
         \A i, j \in 1..Len(p) : p[i] = p[j] => i = j}

\* the outcome of one session.get: a RequestException (raised is TRUE), or a
\* response with its status, whether its body is JSON, and the decoded array
Raised == [raised |-> TRUE, status_code |-> 0, json_ok |-> FALSE, slots |-> <<>>]

Response(status_code, json_ok, slots) ==
    [raised |-> FALSE, status_code |-> status_code, json_ok |-> json_ok, slots |-> slots]

\* a slot request raises, or is answered 200 with a JSON array, 200 with a
\* body that is no JSON, 204 (a success that is not 200) or 403
FetchOutcomes ==
    {Raised}
    \cup {Response(200, TRUE, p) : p \in Payloads}
    \cup {Response(200, FALSE, <<>>)}
    \cup {Response(s, FALSE, <<>>) : s \in {204, 403}}

RefreshOutcomes == {Raised} \cup {Response(s, FALSE, <<>>) : s \in {200, 403}}

PostOutcomes == {Raised} \cup {Response(s, FALSE, <<>>) : s \in {200, 500}}

VARIABLES
    response_class,   \* the class of the responses of the session
    check_interval,   \* config['CHECK_INTERVAL']
    pc,               \* where main() is
    idx,              \* the position of check_slots in location_ids
    last_seen_slots,  \* GlobalEntrySlotChecker.last_seen_slots
    available_slots,  \* the list check_slots is collecting, then main's
    auth_expired,     \* a fetch was answered 403 and no refresh succeeded since
    cyc,              \* history of the current cycle
    loc,              \* history of the location being (or last) checked
    call,             \* history: the last call of _slots_changed, if any
    posted,           \* history: the notification POST of the current cycle
    waited,           \* history: the seconds slept before the current cycle
    cookies,          \* session.cookies, the cookie jar of the session
    session_call,     \* history: the last call of _refresh_session on its own
    stale,            \* history: the first location, while its entry has
                      \* outlived a fetch that gave no observation of it
    norm,             \* history: the last call of _process_slots on its own
    appt,             \* history: the last Appointment read on its own
    transport,        \* the attempts of the adapter for one session.get
    config            \* the environment and what load_config made of it

\* the variables of the components taken on their own
unit_vars == <<norm, appt, transport, config>>

vars == <<response_class, check_interval, pc, idx, last_seen_slots,
          available_slots, auth_expired, cyc, loc, call, posted, waited,
          cookies, session_call, stale, norm, appt, transport, config>>

NoCycle == [refresh_ok |-> FALSE, refreshes |-> 0, fetches |-> 0,
            fetched |-> <<>>, differs |-> FALSE, saw403 |-> FALSE]

NoLoc == [location_id |-> "", prev |-> None, first_status |-> 0,
          refreshes |-> 0, fetches |-> 0, refresh_ok |-> FALSE,
          retry_status |-> 0, stale_fetch |-> FALSE, processed |-> None,
          outcome |-> "none", slept |-> FALSE, done |-> FALSE, gap |-> FALSE]

NoNorm == [slots |-> <<>>, location_id |-> "", result |-> <<>>, called |-> FALSE]

NoAppt == [start_timestamp |-> <<>>, date |-> <<>>, time |-> <<>>]

NoTransport == [attempts |-> <<>>, done |-> FALSE, raised |-> FALSE]

NoConfig == [set |-> FALSE, env |-> <<>>, loaded |-> FALSE, raised |-> FALSE,
             LOCATION_IDS |-> <<>>]

UnitInit ==
    /\ norm = NoNorm
    /\ appt = NoAppt
    /\ transport = NoTransport
    /\ config = NoConfig

(***************************************************************************)
(* The cookie jar: a function from the names of the cookies to their       *)
(* values.  session.get stores the cookies of every response it gets, of   *)
(* whatever status, over those of the same name (requests.Session.send).   *)
(***************************************************************************)
EmptyJar == <<>>

MergeCookies(jar, set_cookies) ==
    [n \in DOMAIN jar \cup DOMAIN set_cookies |->
         IF n \in DOMAIN set_cookies THEN set_cookies[n] ELSE jar[n]]

\* a variant of SessionGet that stores nothing
SessionGetNoStore(jar, raised, set_cookies) == jar

\* the jar after session.get: untouched when the request raised
SessionGet(jar, raised, set_cookies) ==
    IF raised THEN jar ELSE MergeCookies(jar, set_cookies)

\* the cookie the responses of the tests carry
TestCookies == ("TS01ddc3cd" :> "test-cookie")

\* in the poll loop the 200 answers carry the cookie, as in the tests
SetCookies(r) ==
    IF ~r.raised /\ r.status_code = 200 THEN TestCookies ELSE EmptyJar

\* the record of a call of _refresh_session
SessionCall(ret, before, raised, status_code, set_cookies) ==
    << [ret |-> ret, before |-> before, raised |-> raised,
        status_code |-> status_code, set_cookies |-> set_cookies] >>

\* bool(response) for a response object
Truthy(response) ==
    response_class = "MockResponse" \/ response.status_code < 400

\* _refresh_session: True exactly on a 200 answer, False on any other status
\* and on an exception
_refresh_session(r) == ~r.raised /\ r.status_code = 200

\* _slots_changed told apart from the table: the new observation against the
\* entry it would be compared with
Differs(entry, slot_info) ==
    \/ entry = None
    \/ slot_info.date # entry[1].date
    \/ slot_info.times # entry[1].times

\* a variant of Handle200 that stores a first observation and reports only
\* the later changes
Handle200FirstUnreported(table, collected, location_id, slots) ==
    LET processed_slots == _process_slots(slots, location_id) IN
    IF processed_slots # <<>>
    THEN LET r == _slots_changed(table, location_id, processed_slots)
         IN  [table |-> r.table,
              available_slots |-> IF r.ret /\ Get(table, location_id) # None
                                  THEN collected \o processed_slots
                                  ELSE collected,
              processed |-> processed_slots,
              call |-> << [location_id |-> location_id,
                           new_slots |-> processed_slots,
                           before |-> table, ret |-> r.ret] >>]
    ELSE [table |-> table, available_slots |-> collected,
          processed |-> processed_slots, call |-> <<>>]

\* a variant of Handle200 that forgets the entry when there are no slots
Handle200ForgetOnEmpty(table, collected, location_id, slots) ==
    LET processed_slots == _process_slots(slots, location_id) IN
    IF processed_slots # <<>>
    THEN LET r == _slots_changed(table, location_id, processed_slots)
         IN  [table |-> r.table,
              available_slots |-> IF r.ret THEN collected \o processed_slots
                                  ELSE collected,
              processed |-> processed_slots,
              call |-> << [location_id |-> location_id,
                           new_slots |-> processed_slots,
                           before |-> table, ret |-> r.ret] >>]
    ELSE [table |-> [k \in DOMAIN table \ {location_id} |-> table[k]],
          available_slots |-> collected,
          processed |-> processed_slots, call |-> <<>>]

\* a variant of Handle200 that collects every observation, changed or not
Handle200AlwaysCollect(table, collected, location_id, slots) ==
    LET processed_slots == _process_slots(slots, location_id) IN
    IF processed_slots # <<>>
    THEN LET r == _slots_changed(table, location_id, processed_slots)
         IN  [table |-> r.table,
              available_slots |-> collected \o processed_slots,
              processed |-> processed_slots,
              call |-> << [location_id |-> location_id,
                           new_slots |-> processed_slots,
                           before |-> table, ret |-> r.ret] >>]
    ELSE [table |-> table, available_slots |-> collected,
          processed |-> processed_slots, call |-> <<>>]

\* lines 103-109 and 116-120: decode, normalize, detect, collect
Handle200(table, collected, location_id, slots) ==
    LET processed_slots == _process_slots(slots, location_id) IN
    IF processed_slots # <<>>
    THEN LET r == _slots_changed(table, location_id, processed_slots)
         IN  [table |-> r.table,
              available_slots |-> IF r.ret THEN collected \o processed_slots
                                  ELSE collected,
              processed |-> processed_slots,
              call |-> << [location_id |-> location_id,
                           new_slots |-> processed_slots,
                           before |-> table, ret |-> r.ret] >>]
    ELSE [table |-> table, available_slots |-> collected,
          processed |-> processed_slots, call |-> <<>>]

\* a variant of Branch that takes every answer but 200 for an expired session
BranchRefreshOnError(response) ==
    IF response.raised \/ ~Truthy(response) THEN "continue"
    ELSE IF response.status_code = 200
         THEN IF response.json_ok THEN "ok" ELSE "exception"
    ELSE "expired"

\* the branch of check_slots a first response takes, in the order of the code
Branch(response) ==
    IF response.raised \/ ~Truthy(response) THEN "continue"
    ELSE IF response.status_code = 200
         THEN IF response.json_ok THEN "ok" ELSE "exception"
    ELSE IF response.status_code = 403 THEN "expired"
    ELSE "error"

\* the branch a retried response takes
RetryBranch(response) ==
    IF ~response.raised /\ Truthy(response) /\ response.status_code = 200
    THEN IF response.json_ok THEN "ok" ELSE "exception"
    ELSE "skip"

\* the outlived entries after location_id is done, followed for the first
\* configured location: it is in the set when it had an entry and gave no
\* observation, and out of it when it gave one
StaleAfter(set, location_id, prev, processed) ==
    IF location_id # location_ids[1] THEN set
    ELSE IF processed = <<>>
    THEN IF prev # None THEN {location_id} ELSE set
    ELSE set \ {location_id}

\* a variant of NextPc in which an exception in one location ends the sweep
NextPcAbortOnException(i, outcome) ==
    IF outcome = "exception" \/ i + 1 > Len(location_ids) THEN "notify" ELSE "fetch"

\* after location i, whatever its outcome, the for loop moves to the next
\* location, or check_slots returns when there is none (lines 93, 100, 127-130)
NextPc(i, outcome) == IF i + 1 > Len(location_ids) THEN "notify" ELSE "fetch"

(***************************************************************************)
(* The poll loop of main(), one action per HTTP exchange or sleep.         *)
(***************************************************************************)
Init ==
    /\ response_class \in ResponseClasses
    /\ check_interval \in Intervals
    /\ pc = "startup"
    /\ idx = 0
    /\ last_seen_slots = <<>>
    /\ available_slots = <<>>
    /\ auth_expired = FALSE
    /\ cyc = NoCycle
    /\ loc = NoLoc
    /\ call = <<>>
    /\ posted = None
    /\ waited = 0
    /\ cookies = EmptyJar
    /\ session_call = <<>>
    /\ stale = {}
    /\ UnitInit

\* main(), lines 58-69: the test notification, whatever its delivery
Startup ==
    /\ pc = "startup"
    /\ \E r \in PostOutcomes :
           posted' = << [title |-> "Global Entry Alert",
                         success |-> ~r.raised /\ r.status_code = 200] >>
    /\ pc' = "loop"
    /\ UNCHANGED <<response_class, check_interval, idx, last_seen_slots,
                   available_slots, auth_expired, cyc, loc, call, waited,
                   cookies, session_call, stale>>
    /\ UNCHANGED unit_vars

\* a variant of AfterRefresh in which the sweep goes on after a failed refresh
AfterRefreshIgnored(ok) == IF Len(location_ids) > 0 THEN "fetch" ELSE "notify"

\* where check_slots goes after its opening refresh: into the for loop, or
\* straight to 'return []' when the refresh failed (lines 89-93)
AfterRefresh(ok) == IF ok /\ Len(location_ids) > 0 THEN "fetch" ELSE "notify"

\* main() calls check_slots, which refreshes the session first (lines 86-91)
CycleStart ==
    /\ pc = "loop"
    /\ \E r \in RefreshOutcomes :
         LET ok == _refresh_session(r) IN
           /\ cyc' = [refresh_ok |-> ok, refreshes |-> 1, fetches |-> 0,
                      fetched |-> <<>>, differs |-> FALSE, saw403 |-> FALSE]
           /\ auth_expired' = IF ok THEN FALSE ELSE auth_expired
           /\ pc' = AfterRefresh(ok)
           /\ cookies' = SessionGet(cookies, r.raised, SetCookies(r))
    /\ idx' = 1
    /\ available_slots' = <<>>
    /\ loc' = NoLoc
    /\ call' = <<>>
    /\ posted' = None
    /\ UNCHANGED <<response_class, check_interval, last_seen_slots, waited,
                   session_call, stale>>
    /\ UNCHANGED unit_vars

\* the first request for location_ids[idx] and what follows it (lines 94-128)
Fetch ==
    /\ pc = "fetch"
    /\ \E response \in FetchOutcomes :
         LET location_id == location_ids[idx]
             b == Branch(response)
             h == Handle200(last_seen_slots, available_slots, location_id,
                            response.slots)
             prev == Get(last_seen_slots, location_id)
             l0 == [NoLoc EXCEPT !.location_id = location_id,
                                 !.prev = prev,
                                 !.first_status = response.status_code,
                                 !.fetches = 1,
                                 !.stale_fetch = auth_expired,
                                 !.gap = (location_id \in stale)]
         IN
           /\ auth_expired' = (auth_expired \/ response.status_code = 403)
           /\ cookies' = SessionGet(cookies, response.raised, SetCookies(response))
           /\ stale' = IF b = "expired" THEN stale
                       ELSE StaleAfter(stale, location_id, prev,
                                       IF b = "ok" THEN h.processed ELSE <<>>)
           /\ cyc' = [cyc EXCEPT !.fetches = @ + 1,
                                 !.saw403 = @ \/ response.status_code = 403,
                                 !.fetched = Append(@, location_id),
                                 !.differs = @ \/ (b = "ok" /\ h.processed # <<>>
                                                   /\ Differs(prev, h.processed[1]))]
           /\ IF b = "ok"
              THEN /\ last_seen_slots' = h.table
                   /\ available_slots' = h.available_slots
                   /\ call' = h.call
                   /\ loc' = [l0 EXCEPT !.processed = h.processed, !.outcome = "ok",
                                        !.slept = TRUE, !.done = TRUE]
                   /\ pc' = NextPc(idx, "ok")
                   /\ idx' = idx + 1
              ELSE /\ UNCHANGED <<last_seen_slots, available_slots>>
                   /\ call' = <<>>
                   /\ IF b = "expired"
                      THEN /\ loc' = l0
                           /\ pc' = "retry_refresh"
                           /\ idx' = idx
                      ELSE /\ loc' = [l0 EXCEPT !.outcome = b,
                                                !.slept = (b = "error"),
                                                !.done = TRUE]
                           /\ pc' = NextPc(idx, b)
                           /\ idx' = idx + 1
    /\ UNCHANGED <<response_class, check_interval, posted, waited, session_call>>
    /\ UNCHANGED unit_vars

\* the refresh of the 403 branch (lines 111-113)
RetryRefresh ==
    /\ pc = "retry_refresh"
    /\ \E r \in RefreshOutcomes :
         LET ok == _refresh_session(r) IN
           /\ cyc' = [cyc EXCEPT !.refreshes = @ + 1]
           /\ auth_expired' = IF ok THEN FALSE ELSE auth_expired
           /\ cookies' = SessionGet(cookies, r.raised, SetCookies(r))
           /\ stale' = IF ok THEN stale
                       ELSE StaleAfter(stale, loc.location_id, loc.prev, <<>>)
           /\ IF ok
              THEN /\ loc' = [loc EXCEPT !.refreshes = @ + 1, !.refresh_ok = TRUE]
                   /\ pc' = "retry_fetch"
                   /\ idx' = idx
              ELSE /\ loc' = [loc EXCEPT !.refreshes = @ + 1,
                                         !.outcome = "refresh_failed",
                                         !.slept = TRUE, !.done = TRUE]
                   /\ pc' = NextPc(idx, "refresh_failed")
                   /\ idx' = idx + 1
    /\ UNCHANGED <<response_class, check_interval, last_seen_slots,
                   available_slots, call, posted, waited, session_call>>
    /\ UNCHANGED unit_vars

\* the retried request of the 403 branch (lines 114-120)
RetryFetch ==
    /\ pc = "retry_fetch"
    /\ \E response \in FetchOutcomes :
         LET location_id == location_ids[idx]
             b == RetryBranch(response)
             h == Handle200(last_seen_slots, available_slots, location_id,
                            response.slots)
             l1 == [loc EXCEPT !.fetches = @ + 1,
                               !.retry_status = response.status_code,
                               !.stale_fetch = @ \/ auth_expired,
                               !.done = TRUE]
         IN
           /\ auth_expired' = (auth_expired \/ response.status_code = 403)
           /\ cookies' = SessionGet(cookies, response.raised, SetCookies(response))
           /\ stale' = StaleAfter(stale, location_id, loc.prev,
                                  IF b = "ok" THEN h.processed ELSE <<>>)
           /\ cyc' = [cyc EXCEPT !.fetches = @ + 1,
                                 !.saw403 = @ \/ response.status_code = 403,
                                 !.differs = @ \/ (b = "ok" /\ h.processed # <<>>
                                                   /\ Differs(loc.prev, h.processed[1]))]
           /\ IF b = "ok"
              THEN /\ last_seen_slots' = h.table
                   /\ available_slots' = h.available_slots
                   /\ call' = h.call
                   /\ loc' = [l1 EXCEPT !.processed = h.processed, !.outcome = "ok",
                                        !.slept = TRUE]
              ELSE /\ UNCHANGED <<last_seen_slots, available_slots>>
                   /\ call' = <<>>
                   /\ loc' = [l1 EXCEPT !.outcome = IF b = "skip" THEN "retry_failed"
                                                    ELSE b,
                                        !.slept = (b = "skip")]
           /\ pc' = NextPc(idx, b)
    /\ idx' = idx + 1
    /\ UNCHANGED <<response_class, check_interval, posted, waited, session_call>>
    /\ UNCHANGED unit_vars

\* a variant of AfterNotify in which an exception of requests.post escapes
AfterNotifyRaises(r) == IF r.raised THEN "except" ELSE "sleep"

\* where send_notification leaves the loop: it catches every Exception and
\* returns False (notifier.py, lines 12-32), so main() goes on to its sleep
AfterNotify(r) == "sleep"

\* main(), lines 76-95: one POST, about the slots or about there being none;
\* requests.post is no request of the session and leaves its jar alone
Notify ==
    /\ pc = "notify"
    /\ \E r \in PostOutcomes :
           /\ posted' = << [title |-> IF available_slots # <<>>
                                      THEN "Global Entry Slot Available"
                                      ELSE "No Slot Available",
                            success |-> ~r.raised /\ r.status_code = 200] >>
           /\ pc' = AfterNotify(r)
    /\ loc' = NoLoc
    /\ call' = <<>>
    /\ UNCHANGED <<response_class, check_interval, idx, last_seen_slots,
                   available_slots, auth_expired, cyc, waited, cookies,
                   session_call, stale>>
    /\ UNCHANGED unit_vars

\* where time.sleep(CHECK_INTERVAL) leaves the loop (line 98)
AfterSleep(interval) == IF interval >= 0 THEN "loop" ELSE "except"

\* main(), line 98: time.sleep raises ValueError on a negative length
Sleep ==
    /\ pc = "sleep"
    /\ pc' = AfterSleep(check_interval)
    /\ waited' = IF check_interval >= 0 THEN check_interval ELSE 0
    /\ UNCHANGED <<response_class, check_interval, idx, last_seen_slots,
                   available_slots, auth_expired, cyc, loc, call, posted,
                   cookies, session_call, stale>>
    /\ UNCHANGED unit_vars

\* a variant of AfterCooldown in which the handler gives up
AfterCooldownExit == "exit"

\* where the except clause of the loop leaves it (lines 100-102)
AfterCooldown == "loop"

\* main(), lines 100-102: log, wait a minute, go round again
Cooldown ==
    /\ pc = "except"
    /\ pc' = AfterCooldown
    /\ waited' = CooldownSeconds
    /\ UNCHANGED <<response_class, check_interval, idx, last_seen_slots,
                   available_slots, auth_expired, cyc, loc, call, posted,
                   cookies, session_call, stale>>
    /\ UNCHANGED unit_vars

Next ==
    \/ Startup
    \/ CycleStart
    \/ Fetch
    \/ RetryRefresh
    \/ RetryFetch
    \/ Notify
    \/ Sleep
    \/ Cooldown

Spec == Init /\ [][Next]_vars

\* the loop is one thread that runs whenever it can
FairSpec == Spec /\ WF_vars(Next)

(***************************************************************************)
(* The change detector on its own: any sequence of calls of                *)
(* _slots_changed, each with a location and either no slots or what        *)
(* _process_slots makes of a payload of that location.                     *)
(***************************************************************************)
\* payloads for the detector: up to MaxSlots records, repeats allowed
DetectorPayloads == SeqsUpTo(UpstreamRecords, MaxSlots)

DetectorInputs(location_id) ==
    {_process_slots(p, location_id) : p \in DetectorPayloads}

InitDetector ==
    /\ response_class = "requests.Response"
    /\ check_interval = DefaultInterval
    /\ pc = "detector"
    /\ idx = 0
    /\ last_seen_slots = <<>>
    /\ available_slots = <<>>
    /\ auth_expired = FALSE
    /\ cyc = NoCycle
    /\ loc = NoLoc
    /\ call = <<>>
    /\ posted = None
    /\ waited = 0
    /\ cookies = EmptyJar
    /\ session_call = <<>>
    /\ stale = {}
    /\ UnitInit

DetectorCall ==
    /\ pc = "detector"
    /\ \E location_id \in LocationIdSet :
         \E new_slots \in DetectorInputs(location_id) :
           LET r == _slots_changed(last_seen_slots, location_id, new_slots) IN
             /\ last_seen_slots' = r.table
             /\ call' = << [location_id |-> location_id, new_slots |-> new_slots,
                            before |-> last_seen_slots, ret |-> r.ret] >>
    /\ UNCHANGED <<response_class, check_interval, pc, idx, available_slots,
                   auth_expired, cyc, loc, posted, waited, cookies,
                   session_call, stale>>
    /\ UNCHANGED unit_vars

NextDetector == DetectorCall

SpecDetector == InitDetector /\ [][NextDetector]_vars

(***************************************************************************)
(* Properties of the change detector (under SpecDetector).                 *)
(***************************************************************************)
\* the last call had slots and the location had no entry
FirstObservation(c) ==
    c.new_slots # <<>> /\ c.location_id \notin DOMAIN c.before

\* the last call had slots equal in date and times to the location's entry
SameObservation(c) ==
    /\ c.new_slots # <<>>
    /\ c.location_id \in DOMAIN c.before
    /\ c.new_slots[1].date = c.before[c.location_id].date
    /\ c.new_slots[1].times = c.before[c.location_id].times

\* C3: a call with a non-empty observation for a location that has no entry
\* returns true and leaves that observation as the location's entry.
C3_FirstObservationStored ==
    \A i \in 1..Len(call) :
        FirstObservation(call[i]) =>
            /\ call[i].ret
            /\ Get(last_seen_slots, call[i].location_id) = <<call[i].new_slots[1]>>

C3_Witness ==
    /\ pc = "detector"
    /\ call # <<>>
    /\ FirstObservation(call[1])
    /\ call[1].ret
    /\ call[1].location_id \in DOMAIN last_seen_slots

\* C4: a call whose observation has the date and the times of the stored entry
\* returns false and leaves the table as it was; and a call that repeats the
\* location and the observation of the call before it returns false.
C4_SameObservationUnchanged ==
    /\ [](\A i \in 1..Len(call) :
              SameObservation(call[i]) =>
                  ~call[i].ret /\ last_seen_slots = call[i].before)
    /\ [][(/\ call # <<>>
           /\ call' # <<>>
           /\ call[1].new_slots # <<>>
           /\ call'[1].location_id = call[1].location_id
           /\ call'[1].new_slots = call[1].new_slots) => ~call'[1].ret]_vars

C4_Witness ==
    /\ pc = "detector"
    /\ call # <<>>
    /\ SameObservation(call[1])
    /\ ~call[1].ret
    /\ Cardinality(DOMAIN last_seen_slots) = Len(location_ids)

\* C5: when the location has an entry and the observation is not empty, the
\* call returns true exactly when the date differs or the times differ; when it
\* returns true the entry becomes the observation; the entries of the other
\* locations are what they were.
C5_ChangedIffDateOrTimesDiffer ==
    \A i \in 1..Len(call) :
        LET c == call[i]
            l == c.location_id
        IN  (c.new_slots # <<>> /\ l \in DOMAIN c.before) =>
              /\ c.ret <=> (\/ c.new_slots[1].date # c.before[l].date
                            \/ c.new_slots[1].times # c.before[l].times)
              /\ c.ret => last_seen_slots[l] = c.new_slots[1]
              /\ \A k \in KnownLocationIdSet \ {l} :
                     Get(last_seen_slots, k) = Get(c.before, k)

\* the times differ and the date does not, and the entry was replaced
C5_Witness ==
    /\ pc = "detector"
    /\ call # <<>>
    /\ call[1].new_slots # <<>>
    /\ call[1].location_id \in DOMAIN call[1].before
    /\ call[1].new_slots[1].date = call[1].before[call[1].location_id].date
    /\ call[1].new_slots[1].times # call[1].before[call[1].location_id].times
    /\ call[1].ret
    /\ last_seen_slots[call[1].location_id] = call[1].new_slots[1]
    /\ Cardinality(DOMAIN last_seen_slots) > 1

ReportedAt(location_id) ==
    {i \in 1..Len(available_slots) : available_slots[i].location = location_id}

\* C1: a cycle in which no location's observation differs from its entry
\* sends no notification POST.
C1_NoPostWithoutChange ==
    (pc = "sleep" /\ ~cyc.differs) => posted = None

\* C2: a location whose fetch is answered 403 gets exactly one refresh and
\* exactly one retried fetch, and after a second 403 nothing more.
C2_RefreshAndRetryOn403 ==
    (loc.done /\ loc.first_status = 403) =>
        /\ loc.refreshes = 1
        /\ loc.fetches = 2

\* C7: the report holds a location's observation exactly when the fetch of the
\* location succeeded with a non-empty observation that differs in date or in
\* times from the location's entry, or the location had no entry; what the
\* report holds for a location is that observation, once, and it is the
\* location's entry from then on.
C7_ReportedIffChanged ==
    /\ loc.done =>
         IF loc.processed # <<>> /\ Differs(loc.prev, loc.processed[1])
         THEN \E i \in 1..Len(available_slots) :
                  /\ ReportedAt(loc.location_id) = {i}
                  /\ available_slots[i] = loc.processed[1]
         ELSE ReportedAt(loc.location_id) = {}
    /\ pc \in {"fetch", "retry_refresh", "retry_fetch", "notify"} =>
         \A i \in 1..Len(available_slots) :
             Get(last_seen_slots, available_slots[i].location) = <<available_slots[i]>>

\* the third cycle of the scenario: the entry has one time, the payload has a
\* second time on the same date, and the report carries both
C7_Witness ==
    /\ loc.done
    /\ loc.location_id = "14321"
    /\ loc.prev # None
    /\ loc.prev[1].date = <<2025, 2, 14>>
    /\ loc.prev[1].times = << <<5, 0, "AM">> >>
    /\ loc.processed # <<>>
    /\ loc.processed[1].date = <<2025, 2, 14>>
    /\ loc.processed[1].times = << <<5, 0, "AM">>, <<6, 0, "AM">> >>
    /\ available_slots = loc.processed

\* C8: when the refresh that opens the cycle succeeded, check_slots returns
\* only after a fetch for every configured location, in their order; and a
\* location that ends in an error adds nothing to the report and keeps the
\* entry it had.
C8_FaultIsolation ==
    /\ (pc = "notify" /\ cyc.refresh_ok) => cyc.fetched = location_ids
    /\ (loc.done /\ loc.outcome # "ok") =>
          /\ Get(last_seen_slots, loc.location_id) = loc.prev
          /\ ReportedAt(loc.location_id) = {}

\* the first location raised while its body was decoded, the second was
\* fetched all the same and reported
C8_Witness ==
    /\ pc = "notify"
    /\ cyc.refresh_ok
    /\ cyc.fetched = location_ids
    /\ Len(location_ids) > 1
    /\ ReportedAt(location_ids[1]) = {}
    /\ location_ids[1] \notin DOMAIN last_seen_slots
    /\ loc.done
    /\ loc.location_id = location_ids[Len(location_ids)]
    /\ loc.outcome = "ok"
    /\ available_slots # <<>>

\* C9: the loop goes on for ever: a cycle begins again and again and returns
\* again and again; from the end of the try body the next cycle begins after
\* the configured interval, from the except clause after the cooldown.
C9_LoopNeverEnds ==
    /\ []<>(pc = "loop")
    /\ []<>(pc = "sleep")
    /\ [][/\ (pc = "sleep" /\ pc' = "loop") => waited' = check_interval
          /\ pc = "except" => (pc' = "loop" /\ waited' = CooldownSeconds)]_vars

\* a cycle that begins after the cooldown
C9_Witness ==
    /\ pc = "fetch"
    /\ waited = CooldownSeconds
    /\ last_seen_slots # <<>>

\* C10: no slot fetch is issued between a 403 answer to a slot fetch and the
\* next successful refresh.
C10_NoFetchWhileExpired == ~loc.stale_fetch

(***************************************************************************)
(* The components on their own start from a checker that has done nothing. *)
(***************************************************************************)
poll_vars == <<response_class, check_interval, idx, last_seen_slots,
               available_slots, auth_expired, cyc, loc, call, posted, waited,
               stale>>

PollIdle ==
    /\ response_class = "requests.Response"
    /\ check_interval = DefaultInterval
    /\ idx = 0
    /\ last_seen_slots = <<>>
    /\ available_slots = <<>>
    /\ auth_expired = FALSE
    /\ cyc = NoCycle
    /\ loc = NoLoc
    /\ call = <<>>
    /\ posted = None
    /\ waited = 0
    /\ stale = {}

(***************************************************************************)
(* _refresh_session on its own: any sequence of calls, each answered by    *)
(* an exception or by a response of some status with some Set-Cookie.      *)
(***************************************************************************)
CookieNames == {"TS01ddc3cd", "session_cookie"}

CookieValues == {"test-cookie", "other-cookie"}

\* every jar over some of the names
Jars ==
    UNION {[names -> CookieValues] : names \in SUBSET CookieNames}

SessionStatuses == {200, 403, 500}

\* what session.get(base_url) can do in _refresh_session (lines 151-155)
SessionOutcomes ==
    {[raised |-> TRUE, status_code |-> 0, cookies |-> EmptyJar]}
    \cup {[raised |-> FALSE, status_code |-> st, cookies |-> j] :
              st \in SessionStatuses, j \in Jars}

InitSession ==
    /\ PollIdle
    /\ pc = "session"
    /\ cookies \in Jars
    /\ session_call = <<>>
    /\ UnitInit

RefreshCall ==
    /\ pc = "session"
    /\ \E r \in SessionOutcomes :
         /\ cookies' = SessionGet(cookies, r.raised, r.cookies)
         /\ session_call' = SessionCall(_refresh_session(r), cookies, r.raised,
                                        r.status_code, r.cookies)
    /\ UNCHANGED pc
    /\ UNCHANGED poll_vars
    /\ UNCHANGED unit_vars

NextSession == RefreshCall

SpecSession == InitSession /\ [][NextSession]_vars

C12_FailedPostChangesNothing ==
    [][ /\ pc = "notify" =>
              /\ last_seen_slots' = last_seen_slots
              /\ cookies' = cookies
              /\ auth_expired' = auth_expired
              /\ pc' = "sleep"
        /\ (pc = "sleep" /\ check_interval >= 0) =>
              /\ pc' = "loop"
              /\ waited' = check_interval
              /\ posted' = posted ]_vars

\* a cycle whose POST failed has slept the interval and is back at the loop
C12_Witness ==
    /\ pc = "loop"
    /\ posted # None
    /\ ~posted[1].success
    /\ waited = check_interval

(***************************************************************************)
(* _process_slots on its own: one call on any batch of records, some of    *)
(* them malformed, in any order.                                           *)
(***************************************************************************)
\* records whose Eastern times are 05:00 AM, 09:00 AM and 01:00 PM of one
\* day, 10:00 PM of that day from a timestamp of the next, and the next day
WellFormedRecords ==
    {RawRecord(<<2025, 2, 14, 10, 0>>), RawRecord(<<2025, 2, 14, 14, 0>>),
     RawRecord(<<2025, 2, 14, 18, 0>>), RawRecord(<<2025, 2, 15, 3, 0>>),
     RawRecord(<<2025, 2, 15, 10, 0>>)}

\* a record without 'startTimestamp', one whose value is no timestamp at
\* all, and one whose value has no such month
MalformedRecords ==
    {[has_start |-> FALSE, startTimestamp |-> <<>>],
     [has_start |-> TRUE, startTimestamp |-> <<>>],
     [has_start |-> TRUE, startTimestamp |-> <<2025, 13, 1, 10, 0>>]}

NormalizerBatches == SeqsUpTo(WellFormedRecords \cup MalformedRecords, MaxSlots)

InitNormalizer ==
    /\ PollIdle
    /\ pc = "normalizer"
    /\ cookies = EmptyJar
    /\ session_call = <<>>
    /\ UnitInit

ProcessCall ==
    /\ pc = "normalizer"
    /\ \E slots \in NormalizerBatches :
         \E location_id \in LocationIdSet :
           norm' = [slots |-> slots, location_id |-> location_id,
                    result |-> _process_slots(slots, location_id),
                    called |-> TRUE]
    /\ UNCHANGED <<pc, cookies, session_call, appt, transport, config>>
    /\ UNCHANGED poll_vars

NextNormalizer == ProcessCall

SpecNormalizer == InitNormalizer /\ [][NextNormalizer]_vars

\* the indices of the records of a batch that make an Appointment
WellFormedIn(slots) == {i \in 1..Len(slots) : AppointmentOk(slots[i])}

\* the minute of the day a time <<I, M, pp>> stands for
MinuteOfDay(t) == ((t[1] % 12) + (IF t[3] = "PM" THEN 12 ELSE 0)) * 60 + t[2]

\* how often the time t occurs in the sequence s
Occurrences(s, t) == Cardinality({i \in 1..Len(s) : s[i] = t})

\* C13: _process_slots returns at most one observation; its date is the
\* earliest Eastern date of the batch, its times are exactly the times of
\* the records of that date, in ascending chronological order whatever the
\* order of the records; an empty batch gives an empty result.
C13_EarliestDateTimesAscending ==
    norm.called =>
        /\ Len(norm.result) <= 1
        /\ norm.slots = <<>> => norm.result = <<>>
        /\ norm.result # <<>> =>
             LET o == norm.result[1]
                 on_date == {i \in WellFormedIn(norm.slots) :
                                AppointmentDate(norm.slots[i].startTimestamp) = o.date}
             IN  /\ on_date # {}
                 /\ \A i \in WellFormedIn(norm.slots) :
                        ~TupleLess(AppointmentDate(norm.slots[i].startTimestamp), o.date)
                 /\ Len(o.times) = Cardinality(on_date)
                 /\ \A i \in on_date :
                        LET t == AppointmentTime(norm.slots[i].startTimestamp) IN
                          Occurrences(o.times, t) =
                            Cardinality({j \in on_date :
                                AppointmentTime(norm.slots[j].startTimestamp) = t})
                 /\ \A i \in 1..Len(o.times) : \A j \in 1..Len(o.times) :
                        i < j => MinuteOfDay(o.times[i]) <= MinuteOfDay(o.times[j])

\* C14: a malformed record is dropped and its siblings are kept: the result
\* is that of the batch without its malformed records, and it is a list of
\* observations, never an error.
C14_MalformedDropped ==
    norm.called =>
        /\ norm.result = _process_slots(SelectSeq(norm.slots, AppointmentOk),
                                        norm.location_id)
        /\ \A i \in 1..Len(norm.result) :
               /\ norm.result[i].location = norm.location_id
               /\ norm.result[i].times # <<>>
        /\ WellFormedIn(norm.slots) # {} => norm.result # <<>>

\* a batch of a malformed record and a well-formed one gave an observation
C14_Witness ==
    /\ norm.called
    /\ \E i \in 1..Len(norm.slots) : ~AppointmentOk(norm.slots[i])
    /\ WellFormedIn(norm.slots) # {}
    /\ norm.result # <<>>
    /\ Len(norm.result[1].times) = 1

(***************************************************************************)
(* The retry adapter of the session on its own: the attempts it makes for  *)
(* one session.get.  Retry(total=3) allows three retries after the first   *)
(* attempt; an answer whose status is in status_forcelist, or an attempt   *)
(* that fails to connect or to read, is retried while retries are left.    *)
(***************************************************************************)
\* total=3, "number of retries"
RetryTotal == 3

\* a variant of status_forcelist that has 403 in it
status_forcelist_with_403 == {403, 429, 500, 502, 503, 504}

status_forcelist == {429, 500, 502, 503, 504}

\* what one attempt can do: fail to connect or read, or get an answer
AttemptOutcomes ==
    {[raised |-> TRUE, status_code |-> 0]}
    \cup {[raised |-> FALSE, status_code |-> st] :
              st \in {200, 403} \cup status_forcelist}

\* Retry.is_retry and the retry of connection and read errors
Retryable(o) == o.raised \/ o.status_code \in status_forcelist

InitTransport ==
    /\ PollIdle
    /\ pc = "transport"
    /\ cookies = EmptyJar
    /\ session_call = <<>>
    /\ UnitInit

\* one attempt of the adapter: it is the last one when its outcome is not
\* retried or when the retries are used up, and then the request raises
Attempt ==
    /\ pc = "transport"
    /\ ~transport.done
    /\ \E o \in AttemptOutcomes :
         LET attempts == Append(transport.attempts, o)
             retry == Retryable(o) /\ Len(attempts) <= RetryTotal
         IN  transport' = [attempts |-> attempts,
                           done |-> ~retry,
                           raised |-> ~retry /\ Retryable(o)]
    /\ UNCHANGED <<pc, cookies, session_call, norm, appt, config>>
    /\ UNCHANGED poll_vars

NextTransport == Attempt

SpecTransport == InitTransport /\ [][NextTransport]_vars

TimestampDays ==
    {<<2025, 1, 1>>, <<2025, 2, 14>>, <<2025, 3, 1>>, <<2025, 3, 9>>,
     <<2025, 7, 4>>, <<2025, 11, 2>>}

TimestampHours == {0, 3, 4, 5, 6, 7, 10, 12, 17, 18, 23}

TimestampMinutes == {0, 30}

\* the values of start_timestamp, all in the format '%Y-%m-%dT%H:%M'
Timestamps ==
    {<<d[1], d[2], d[3], h, m>> :
         d \in TimestampDays, h \in TimestampHours, m \in TimestampMinutes}

InitAppointment ==
    /\ PollIdle
    /\ pc = "appointment"
    /\ cookies = EmptyJar
    /\ session_call = <<>>
    /\ UnitInit

ReadAppointment ==
    /\ pc = "appointment"
    /\ \E start_timestamp \in Timestamps :
         /\ StrptimeOk(start_timestamp)
         /\ appt' = [start_timestamp |-> start_timestamp,
                     date |-> AppointmentDate(start_timestamp),
                     time |-> AppointmentTime(start_timestamp)]
    /\ UNCHANGED <<pc, cookies, session_call, norm, transport, config>>
    /\ UNCHANGED poll_vars

NextAppointment == ReadAppointment

SpecAppointment == InitAppointment /\ [][NextAppointment]_vars

MaxEnvLen == 3

EnvChars == {"1", "4", ",", " "}

EnvStrings == SeqsUpTo(EnvChars, MaxEnvLen)

\* default_locations = '14321'
default_locations == <<"1", "4", "3", "2", "1">>

\* os.getenv('LOCATION_IDS', default_locations)
GetEnv(c) == IF c.set THEN c.env ELSE default_locations

\* str.split(','): the pieces between the commas, one more than the commas
RECURSIVE Split(_)
Split(s) ==
    IF s = <<>> THEN << <<>> >>
    ELSE LET rest == Split(Tail(s)) IN
         IF Head(s) = "," THEN << <<>> >> \o rest
         ELSE << <<Head(s)>> \o Head(rest) >> \o Tail(rest)

RECURSIVE LStrip(_)
LStrip(s) ==
    IF s # <<>> /\ Head(s) = " " THEN LStrip(Tail(s)) ELSE s

RECURSIVE RStrip(_)
RStrip(s) ==
    IF s # <<>> /\ s[Len(s)] = " " THEN RStrip(SubSeq(s, 1, Len(s) - 1)) ELSE s

\* str.strip()
Strip(s) == RStrip(LStrip(s))

\* [str(loc_id).strip() for loc_id in location_ids.split(',')]
LocationIdsOf(env_value) ==
    LET pieces == Split(env_value) IN
    [i \in 1..Len(pieces) |-> Strip(pieces[i])]

InitConfig ==
    /\ PollIdle
    /\ pc = "config"
    /\ cookies = EmptyJar
    /\ session_call = <<>>
    /\ norm = NoNorm
    /\ appt = NoAppt
    /\ transport = NoTransport
    /\ config \in {NoConfig}
                  \cup {[NoConfig EXCEPT !.set = TRUE, !.env = s] : s \in EnvStrings}

\* load_config(): raises when the list is empty, returns the config if not,
\* and main() goes on to its loop with what it returned
LoadConfig ==
    /\ pc = "config"
    /\ LET LOCATION_IDS == LocationIdsOf(GetEnv(config))
           raised == (LOCATION_IDS = <<>>)
       IN  /\ config' = [config EXCEPT !.loaded = TRUE, !.raised = raised,
                                       !.LOCATION_IDS = LOCATION_IDS]
           /\ pc' = IF raised THEN "exit" ELSE "startup"
    /\ UNCHANGED <<cookies, session_call, norm, appt, transport>>
    /\ UNCHANGED poll_vars

NextConfig == LoadConfig

SpecConfig == InitConfig /\ [][NextConfig]_vars

\* C17: when LOCATION_IDS is set and names no location (it is the empty
\* string, or nothing but commas and blanks), load_config raises and the
\* process does not go on to the poll loop.
C17_EmptyLocationsFatal ==
    ( /\ config.loaded
      /\ config.set
      /\ \A i \in 1..Len(config.LOCATION_IDS) : config.LOCATION_IDS[i] = <<>> )
    => (config.raised /\ pc = "exit")

(***************************************************************************)
(* Properties of the order of the requests of a cycle and of the entries   *)
(* that outlive a cycle (under Spec).                                      *)
(***************************************************************************)
\* C18: a cycle begins with a refresh and no slot fetch is sent before it
\* or after it has failed; the locations are fetched in the configured
\* order; a cycle whose refresh succeeded and in which no fetch was answered
\* 403 has made one refresh and one fetch for each location, 1 + N requests.
C18_RefreshFirstOneFetchEach ==
    /\ [][pc = "loop" => /\ cyc'.refreshes = 1
                         /\ cyc'.fetches = 0
                         /\ cyc'.fetched = <<>>]_vars
    /\ [][cyc'.fetches > cyc.fetches => /\ pc # "loop"
                                        /\ cyc.refreshes >= 1
                                        /\ cyc.refresh_ok]_vars
    /\ [](cyc.fetched = SubSeq(location_ids, 1, Len(cyc.fetched)))
    /\ []((pc = "notify" /\ cyc.refresh_ok /\ ~cyc.saw403) =>
             /\ cyc.refreshes = 1
             /\ cyc.fetched = location_ids
             /\ cyc.fetches = Len(location_ids)
             /\ cyc.refreshes + cyc.fetches = 1 + NumLocations)

\* a sweep without a 403 is over: one refresh, every location fetched once
C18_Witness ==
    /\ pc = "notify"
    /\ cyc.refresh_ok
    /\ ~cyc.saw403
    /\ cyc.refreshes = 1
    /\ cyc.fetches = NumLocations
    /\ cyc.fetched = location_ids

\* C19: when the sweep moves on to the next location, it has waited the
\* inter-request delay after the location before, whatever that location's
\* outcome was.
C19_DelayBetweenLocations ==
    (pc = "fetch" /\ loc.done) => loc.slept

\* C20: an entry outlives a cycle that gives no observation of its
\* location: after such a cycle the entry is what it was and the location
\* is not in the report of that cycle; and when a later observation of the
\* location is that same entry again, after such a cycle or not, it is not
\* reported and the entry stays.
C20_StaleEntrySuppressesRepeat ==
    /\ (loc.done /\ loc.processed = <<>> /\ loc.prev # None) =>
          /\ Get(last_seen_slots, loc.location_id) = loc.prev
          /\ ReportedAt(loc.location_id) = {}
          /\ loc.location_id = location_ids[1] => loc.location_id \in stale
    /\ (loc.done /\ loc.prev # None /\ loc.processed # <<>>
          /\ ~Differs(loc.prev, loc.processed[1])) =>
          /\ Get(last_seen_slots, loc.location_id) = loc.prev
          /\ ReportedAt(loc.location_id) = {}
          /\ loc.location_id \notin stale
    /\ loc.gap => (loc.prev # None /\ loc.location_id = location_ids[1])

\* the entry of a location outlived a cycle and has now been observed again
C20_Witness ==
    /\ loc.done
    /\ loc.gap
    /\ loc.prev # None
    /\ loc.processed # <<>>
    /\ ~Differs(loc.prev, loc.processed[1])
    /\ ReportedAt(loc.location_id) = {}

(***************************************************************************)
(* Properties of the writes of last_seen_slots in the poll loop (under     *)
(* Spec).                                                                  *)
(***************************************************************************)
\* C21: the table is empty when the loop starts; a step changes it only by
\* a call of the change detector that returns true, and then only the entry
\* of the location of that call, which becomes the observation of the call
\* and is the last one added to the report of the cycle; the report only
\* grows during a sweep, so that when check_slots returns, every location in
\* the report has in the table the very observation reported.
C21_EntriesAreReportedObservations ==
    /\ [](pc = "startup" => last_seen_slots = <<>>)
    /\ [][last_seen_slots' # last_seen_slots =>
            /\ pc \in {"fetch", "retry_fetch"}
            /\ call' # <<>>
            /\ call'[1].ret
            /\ call'[1].before = last_seen_slots
            /\ call'[1].location_id = location_ids[idx]
            /\ last_seen_slots' = Put(last_seen_slots, call'[1].location_id,
                                      call'[1].new_slots[1])
            /\ available_slots' = Append(available_slots, call'[1].new_slots[1])]_vars
    /\ [][(pc = "fetch" \/ pc = "retry_refresh" \/ pc = "retry_fetch") =>
            /\ Len(available_slots) <= Len(available_slots')
            /\ available_slots =
                   SubSeq(available_slots', 1, Len(available_slots))]_vars
    /\ [](pc = "notify" =>
            \A i \in 1..Len(available_slots) :
                Get(last_seen_slots, available_slots[i].location)
                    = <<available_slots[i]>>)
    /\ [](\A location_id \in DOMAIN last_seen_slots :
                /\ location_id \in LocationIdSet
                /\ last_seen_slots[location_id].location = location_id
                /\ last_seen_slots[location_id].times # <<>>)

\* a sweep is over in which the entry of a location was replaced by a new
\* observation, and the report holds that observation
C21_Witness ==
    /\ pc = "notify"
    /\ loc.done
    /\ loc.prev # None
    /\ call # <<>>
    /\ call[1].ret
    /\ available_slots # <<>>
    /\ available_slots[Len(available_slots)] = last_seen_slots[loc.location_id]
    /\ <<last_seen_slots[loc.location_id]>> # loc.prev

\* the opening refresh of the current cycle has failed
OpeningRefreshFailed == cyc.refreshes >= 1 /\ ~cyc.refresh_ok

\* C22: when the refresh that opens a cycle fails, the cycle makes no slot
\* fetch and no further refresh, its report is empty and no step of it
\* changes the table; the loop goes from the failed refresh to the
\* notification step, then to the sleep, and from the sleep of the
\* configured interval back to the start of the next cycle, which it always
\* reaches.
C22_FailedRefreshSkipsSweep ==
    /\ [](OpeningRefreshFailed =>
            /\ cyc.refreshes = 1
            /\ cyc.fetches = 0
            /\ cyc.fetched = <<>>
            /\ available_slots = <<>>
            /\ pc \in {"notify", "sleep", "loop", "except"})
    /\ [][(pc = "loop" /\ ~cyc'.refresh_ok) =>
            /\ pc' = "notify"
            /\ last_seen_slots' = last_seen_slots
            /\ available_slots' = <<>>]_vars
    /\ [][(OpeningRefreshFailed /\ pc # "loop") =>
            /\ last_seen_slots' = last_seen_slots
            /\ cyc' = cyc
            /\ (pc = "notify" => pc' = "sleep")
            /\ (pc = "sleep" /\ check_interval >= 0) =>
                   (pc' = "loop" /\ waited' = check_interval)]_vars
    /\ ((OpeningRefreshFailed /\ pc = "notify") ~> (pc = "loop"))

\* a cycle whose opening refresh failed, with entries in the table, has sent
\* its empty report and slept the interval, and the next cycle is to start
C22_Witness ==
    /\ pc = "loop"
    /\ OpeningRefreshFailed
    /\ cyc.fetches = 0
    /\ last_seen_slots # <<>>
    /\ available_slots = <<>>
    /\ posted # None
    /\ posted[1].title = "No Slot Available"
    /\ check_interval >= 0
    /\ waited = check_interval

====
